---- MODULE Spec2Model ----
(***************************************************************************)
(* Model of src/App.py: the Flask endpoint /analyze, the review fetch loop *)
(* of AmazonReviewAnalyzer driven through one shared Selenium driver, and  *)
(* generate_summary.  Strings are sequences of one-character strings, so   *)
(* len, slicing, lower, strip, split and the substring test `in` are       *)
(* computed, not assumed.                                                  *)
(***************************************************************************)
EXTENDS Integers, Sequences, FiniteSets, TLC

\* ------------------------------------------------------------ str methods

SetMin(S) == CHOOSE x \in S : \A y \in S : x <= y

SetMax(S) == CHOOSE x \in S : \A y \in S : y <= x

\* c * n
Rep(c, n) == [i \in 1..n |-> c]

UpperChars == <<"A","B","C","D","E","F","G","H","I","J","K","L","M","N","O","P","Q","R","S","T","U","V","W","X","Y","Z">>

LowerChars == <<"a","b","c","d","e","f","g","h","i","j","k","l","m","n","o","p","q","r","s","t","u","v","w","x","y","z">>

DigitChars == <<"0","1","2","3","4","5","6","7","8","9">>

UpperSet == {UpperChars[k] : k \in 1..26}

LowerOf == [c \in UpperSet |-> LowerChars[CHOOSE k \in 1..26 : UpperChars[k] = c]]

LowerChar(c) == IF c \in UpperSet THEN LowerOf[c] ELSE c

\* str.lower()
Lower(s) == [i \in 1..Len(s) |-> LowerChar(s[i])]

IsSpace(c) == c \in {" ", "\n", "\t"}

\* str.strip()
Strip(s) ==
  LET keep == {i \in 1..Len(s) : ~IsSpace(s[i])}
  IN  IF keep = {} THEN <<>> ELSE SubSeq(s, SetMin(keep), SetMax(keep))

\* the substring test  kw in s
Contains(kw, s) ==
  \/ kw = <<>>
  \/ \E i \in 1..(Len(s) - Len(kw) + 1) :
       s[i] = kw[1] /\ SubSeq(s, i, i + Len(kw) - 1) = kw

\* str.find(kw, from): the least index >= from where kw starts, 0 when none
Find(kw, s, from) ==
  LET at == {i \in from..(Len(s) - Len(kw) + 1) :
               s[i] = kw[1] /\ SubSeq(s, i, i + Len(kw) - 1) = kw}
  IN  IF at = {} THEN 0 ELSE SetMin(at)

RECURSIVE SplitFrom(_, _, _)
SplitFrom(s, c, from) ==
  LET cuts == {i \in from..Len(s) : s[i] = c}
  IN  IF cuts = {} THEN <<SubSeq(s, from, Len(s))>>
      ELSE <<SubSeq(s, from, SetMin(cuts) - 1)>> \o SplitFrom(s, c, SetMin(cuts) + 1)

\* str.split(c) for a one-character separator
Split(s, c) == SplitFrom(s, c, 1)

RECURSIVE Join(_, _)
\* sep.join(items)
Join(sep, items) ==
  IF items = <<>> THEN <<>>
  ELSE IF Len(items) = 1 THEN items[1]
  ELSE items[1] \o sep \o Join(sep, Tail(items))

\* max(items, key=len): the first item of greatest length
MaxByLen(items) ==
  items[CHOOSE i \in 1..Len(items) :
          /\ \A j \in 1..Len(items) : Len(items[j]) <= Len(items[i])
          /\ \A j \in 1..(i - 1) : Len(items[j]) < Len(items[i])]

RECURSIVE FormatInt(_)
\* str(n) for n >= 0
FormatInt(n) ==
  IF n < 10 THEN <<DigitChars[n + 1]>>
  ELSE FormatInt(n \div 10) \o <<DigitChars[(n % 10) + 1]>>


\* ------------------------------------------------- clean_url, get_review_url

AsinChars == {UpperChars[k] : k \in 1..26} \cup {DigitChars[k] : k \in 1..10}

AsinLen == 10

\* re.search(prefix + r'([A-Z0-9]{10})', url): the index of the group of the
\* leftmost match, 0 when there is none
AsinSearch(prefix, url) ==
  LET at == {i \in 1..(Len(url) - Len(prefix) - AsinLen + 1) :
               /\ SubSeq(url, i, i + Len(prefix) - 1) = prefix
               /\ \A k \in 0..(AsinLen - 1) : url[i + Len(prefix) + k] \in AsinChars}
  IN  IF at = {} THEN 0 ELSE SetMin(at) + Len(prefix)

\* the index of the ASIN that clean_url extracts: /dp/ first, then /product/
AsinIndex(url) ==
  IF AsinSearch(<<"/", "d", "p", "/">>, url) # 0 THEN AsinSearch(<<"/", "d", "p", "/">>, url)
  ELSE AsinSearch(<<"/", "p", "r", "o", "d", "u", "c", "t", "/">>, url)

SchemeChars == {LowerChars[k] : k \in 1..26} \cup {UpperChars[k] : k \in 1..26}
               \cup {DigitChars[k] : k \in 1..10} \cup {"+", "-", "."}

\* urllib.parse.urlparse(url).netloc: what follows "//" (after an optional
\* scheme) up to the first of / ? #
Netloc(url) ==
  LET colon == Find(<<":">>, url, 1)
      hasScheme == /\ colon > 1
                   /\ url[1] \notin {DigitChars[k] : k \in 1..10} \cup {"+", "-", "."}
                   /\ \A i \in 1..(colon - 1) : url[i] \in SchemeChars
      rest  == IF hasScheme THEN SubSeq(url, colon + 1, Len(url)) ELSE url
      stops == {i \in 3..Len(rest) : rest[i] \in {"/", "?", "#"}}
  IN  IF Len(rest) >= 2 /\ SubSeq(rest, 1, 2) = <<"/", "/">>
        THEN SubSeq(rest, 3, IF stops = {} THEN Len(rest) ELSE SetMin(stops) - 1)
        ELSE <<>>

\* clean_url raises ValueError("Could not find valid ASIN in URL")
CleanUrlRaises(url) == AsinIndex(url) = 0

\* the (domain, asin) clean_url returns
clean_url(url) ==
  [domain |-> Netloc(url),
   asin   |-> SubSeq(url, AsinIndex(url), AsinIndex(url) + AsinLen - 1)]

get_review_url(domain, asin) ==
  <<"h", "t", "t", "p", "s", ":", "/", "/">> \o domain \o <<"/", "p", "r", "o", "d", "u", "c", "t", "-", "r", "e", "v", "i", "e", "w", "s", "/">> \o asin \o <<"/">>

\* f"{review_url}?pageNumber={page}"
PageUrl(review_url, page) == review_url \o <<"?", "p", "a", "g", "e", "N", "u", "m", "b", "e", "r", "=">> \o FormatInt(page)

\* ---------------------------------------------------------- analyze_sentiment

\* Stand-in for TextBlob's pattern lexicon: a word and its polarity in
\* thousandths.  TextBlob is outside the repository; any scorer with values in
\* [-1.0, 1.0] fits the code.  The scores are chosen so that texts of the
\* listings below land on, just above and just below the thresholds.
Lexicon ==
  << [word |-> <<"g", "r", "e", "a", "t">>, score |->  800],
     [word |-> <<"g", "o", "o", "d">>,  score |->  700],
     [word |-> <<"n", "i", "c", "e">>,  score |->  102],
     [word |-> <<"m", "i", "l", "d">>,  score |->  100],
     [word |-> <<"d", "u", "l", "l">>,  score |-> -100],
     [word |-> <<"w", "e", "a", "k">>,  score |-> -102],
     [word |-> <<"p", "o", "o", "r">>,  score |-> -400],
     [word |-> <<"b", "a", "d">>,   score |-> -700] >>

CountOcc(kw, s) ==
  Cardinality({i \in 1..(Len(s) - Len(kw) + 1) :
                 s[i] = kw[1] /\ SubSeq(s, i, i + Len(kw) - 1) = kw})

RECURSIVE SumOver(_, _)
SumOver(f, n) == IF n = 0 THEN 0 ELSE f[n] + SumOver(f, n - 1)

\* TextBlob(text).sentiment.polarity in thousandths: the mean score of the
\* lexicon words found, 0 when there are none
Polarity(text) ==
  LET low   == Lower(text)
      hits  == [k \in 1..Len(Lexicon) |-> CountOcc(Lexicon[k].word, low)]
      total == SumOver(hits, Len(Lexicon))
      score == SumOver([k \in 1..Len(Lexicon) |-> hits[k] * Lexicon[k].score], Len(Lexicon))
  IN  IF total = 0 THEN 0
      ELSE IF score >= 0 THEN score \div total ELSE -((-score) \div total)

SentimentGE(polarity) ==
  IF polarity >= 100 THEN "Positive"
  ELSE IF polarity <= -100 THEN "Negative"
  ELSE "Neutral"

\* the thresholds of analyze_sentiment: 0.1 and -0.1, polarity in thousandths
SentimentOf(polarity) ==
  IF polarity > 100 THEN "Positive"
  ELSE IF polarity < -100 THEN "Negative"
  ELSE "Neutral"

analyze_sentiment(text) == SentimentOf(Polarity(text))

\* ------------------------------------------------------------------ the site
\* What the browser can load: the environment of the program.  A review
\* element is the text of span[data-hook="review-body"] and the textContent of
\* the star-rating element.

PageSize == 2

SiteHost == <<"w", "w", "w", ".", "a", "m", "a", "z", "o", "n", ".", "c", "o", "m">>

AsinA == <<"B", "0", "0", "0", "0", "0", "0", "0", "0", "A">>

AsinB == <<"B", "0", "0", "0", "0", "0", "0", "0", "0", "B">>

AsinD == <<"B", "0", "0", "0", "0", "0", "0", "0", "0", "D">>

AsinP == <<"B", "0", "0", "0", "0", "0", "0", "0", "0", "P">>

AsinQ == <<"B", "0", "0", "0", "0", "0", "0", "0", "0", "Q">>

\* prefix, filled with "z" up to n characters
Padded(prefix, n) == prefix \o Rep("z", n - Len(prefix))

Element(body, stars) == [body |-> body, stars |-> stars]

Stars5 == <<"5", ".", "0", " ", "o", "u", "t", " ", "o", "f", " ", "5", " ", "s", "t", "a", "r", "s">>

Stars4 == <<"4", ".", "0", " ", "o", "u", "t", " ", "o", "f", " ", "5", " ", "s", "t", "a", "r", "s">>

Stars3 == <<"3", ".", "0", " ", "o", "u", "t", " ", "o", "f", " ", "5", " ", "s", "t", "a", "r", "s">>

Stars2 == <<"2", ".", "0", " ", "o", "u", "t", " ", "o", "f", " ", "5", " ", "s", "t", "a", "r", "s">>

Stars1 == <<"1", ".", "0", " ", "o", "u", "t", " ", "o", "f", " ", "5", " ", "s", "t", "a", "r", "s">>

StarsDe == <<"4", ",", "0", " ", "v", "o", "n", " ", "5", " ", "S", "t", "e", "r", "n", "e", "n">>

ListingA ==
  << Element(<<"\n", " ", " ">> \o Padded(<<"G", "r", "e", "a", "t", " ", "Q", "u", "a", "l", "i", "t", "y", " ", "a", "n", "d", " ", "a", " ", "f", "a", "i", "r", " ", "p", "r", "i", "c", "e", ".", " ", "T", "h", "e", " ", "b", "u", "i", "l", "d", " ", "i", "s", " ", "g", "r", "e", "a", "t", " ", "t", "o", "o", ".", " ">>, 230) \o <<" ">>, Stars5),
     Element(Padded(<<"W", "o", "r", "k", "s", ".", " ", "T", "h", "e", " ", "m", "a", "t", "e", "r", "i", "a", "l", " ", "f", "e", "e", "l", "s", " ", "g", "r", "e", "a", "t", " ", "a", "n", "d", " ", "t", "h", "e", " ", "d", "e", "s", "i", "g", "n", " ", "i", "s", " ", "g", "o", "o", "d", ".", " ">>, 230), Stars4),
     Element(<<"G", "r", "e", "a", "t", "!">>, Stars2),
     Element(Padded(<<"I", "t", " ", "i", "s", " ", "a", " ", "t", "h", "i", "n", "g", ".", " ", "I", " ", "u", "s", "e", " ", "i", "t", " ", "d", "a", "i", "l", "y", ".", " ">>, 240), Stars3),
     Element(Padded(<<"A", "r", "r", "i", "v", "e", "d", " ", "o", "n", " ", "t", "i", "m", "e", ".", " ", "B", "o", "x", " ", "w", "a", "s", " ", "p", "l", "a", "i", "n", ".", " ">>, 240), Stars4),
     Element(Padded(<<"G", "r", "e", "a", "t", " ", "s", "u", "p", "p", "o", "r", "t", ".", " ">>, 200), Stars5),
     Element(Padded(<<"P", "o", "o", "r", " ", "q", "u", "a", "l", "i", "t", "y", ".", " ", "I", "t", " ", "i", "s", " ", "s", "l", "o", "w", " ", "a", "n", "d", " ", "b", "a", "d", ".", " ">>, 201), Stars1) >>

ListingB ==
  << Element(Padded(<<"B", "a", "d", ".", " ", "T", "h", "e", " ", "c", "o", "s", "t", " ", "w", "a", "s", " ", "b", "a", "d", ".", " ", "C", "u", "s", "t", "o", "m", "e", "r", " ", "S", "e", "r", "v", "i", "c", "e", " ", "w", "a", "s", " ", "p", "o", "o", "r", ".", " ">>, 220), Stars1),
     Element(<<"P", "o", "o", "r", ".">>, Stars2),
     Element(Padded(<<"T", "h", "e", " ", "p", "r", "i", "c", "e", " ", "i", "s", " ", "b", "a", "d", ".", " ", "I", "t", " ", "h", "a", "s", " ", "f", "l", "a", "w", "s", ".", " ">>, 210), Stars1),
     Element(Padded(<<"M", "i", "l", "d", ".", " ", "D", "o", "e", "s", " ", "t", "h", "e", " ", "j", "o", "b", ".", " ", "N", "o", "t", "h", "i", "n", "g", " ", "m", "o", "r", "e", " ", "t", "o", " ", "s", "a", "y", ".", " ">>, 260), Stars3),
     Element(Padded(<<"d", "u", "l", "l", " ">>, 200), Stars2),
     Element(<<"m", "i", "l", "d", " ", "n", "i", "c", "e">>, Stars4),
     Element(<<"d", "u", "l", "l", " ", "w", "e", "a", "k">>, Stars2),
     Element(<<" ", " ", " ">>, Stars3),
     Element(<<"G", "r", "e", "a", "t", ".">>, StarsDe) >>

ListingP == << Element(<<"G", "r", "e", "a", "t", " ", "p", "e", "n", ".">>, Stars5), Element(<<"B", "a", "d", " ", "i", "n", "k", ".">>, Stars1) >>

ListingQ == << Element(<<"I", "t", " ", "i", "s", " ", "a", " ", "q", "u", "i", "l", "l", ".">>, Stars3) >>

Listing(asin) ==
  IF asin = AsinA THEN ListingA
  ELSE IF asin = AsinB THEN ListingB
  ELSE IF asin = AsinP THEN ListingP
  ELSE IF asin = AsinQ THEN ListingQ
  ELSE <<>>

TitleText(asin) ==
  IF asin = AsinA THEN <<" ", " ", "W", "i", "d", "g", "e", "t", " ", "A", " ", "\n">>
  ELSE IF asin = AsinB THEN <<" ", "W", "i", "d", "g", "e", "t", " ", "B">>
  ELSE IF asin = AsinD THEN <<"W", "i", "d", "g", "e", "t", " ", "D">>
  ELSE IF asin = AsinP THEN <<"P", "e", "n", " ", "P", " ">>
  ELSE IF asin = AsinQ THEN <<"Q", "u", "i", "l", "l", " ", "Q">>
  ELSE <<>>

KnownAsins == {AsinA, AsinB, AsinD, AsinP, AsinQ}

Blank == [kind |-> "blank", asin |-> <<>>, page |-> 0]

ErrorPage == [kind |-> "error", asin |-> <<>>, page |-> 0]

RECURSIVE ParseInt(_)
ParseInt(ds) ==
  IF ds = <<>> THEN 0
  ELSE 10 * ParseInt(SubSeq(ds, 1, Len(ds) - 1))
       + (CHOOSE k \in 0..9 : DigitChars[k + 1] = ds[Len(ds)])

IsDigits(ds) == ds # <<>> /\ \A i \in 1..Len(ds) : \E k \in 1..10 : DigitChars[k] = ds[i]

StartsWith(s, p) == Len(s) >= Len(p) /\ SubSeq(s, 1, Len(p)) = p

\* the page the site serves for a URL; "unreachable" when no server answers
Route(target) ==
  LET root == <<"h", "t", "t", "p", "s", ":", "/", "/">> \o SiteHost \o <<"/">>
      list == root \o <<"p", "r", "o", "d", "u", "c", "t", "-", "r", "e", "v", "i", "e", "w", "s", "/">>
      mid  == <<"/", "?", "p", "a", "g", "e", "N", "u", "m", "b", "e", "r", "=">>
      rest == SubSeq(target, Len(list) + 1, Len(target))
  IN  IF ~StartsWith(target, root) THEN [kind |-> "unreachable", asin |-> <<>>, page |-> 0]
      ELSE IF /\ StartsWith(target, list)
              /\ Len(rest) > AsinLen + Len(mid)
              /\ SubSeq(rest, 1, AsinLen) \in KnownAsins
              /\ SubSeq(rest, AsinLen + 1, AsinLen + Len(mid)) = mid
              /\ IsDigits(SubSeq(rest, AsinLen + Len(mid) + 1, Len(rest)))
        THEN [kind |-> "reviews", asin |-> SubSeq(rest, 1, AsinLen),
              page |-> ParseInt(SubSeq(rest, AsinLen + Len(mid) + 1, Len(rest)))]
      ELSE IF /\ AsinIndex(target) # 0
              /\ SubSeq(target, AsinIndex(target), AsinIndex(target) + AsinLen - 1) \in KnownAsins
        THEN [kind |-> "product",
              asin |-> SubSeq(target, AsinIndex(target), AsinIndex(target) + AsinLen - 1),
              page |-> 0]
      ELSE [kind |-> "other", asin |-> <<>>, page |-> 0]

\* driver.find_elements(By.CSS_SELECTOR, 'div[data-hook="review"]') on a page
ReviewElementsOn(pg) ==
  IF pg.kind = "reviews" /\ pg.page >= 1
    THEN LET all == Listing(pg.asin)
             lo  == (pg.page - 1) * PageSize + 1
             hi  == IF pg.page * PageSize < Len(all) THEN pg.page * PageSize ELSE Len(all)
         IN  IF lo > Len(all) THEN <<>> ELSE SubSeq(all, lo, hi)
    ELSE <<>>

\* whether an element of class "review" is present on a page: a review, or the
\* empty review container that the listing of AsinD shows on every page
HasReviewClass(pg) ==
  /\ pg.kind = "reviews"
  /\ (ReviewElementsOn(pg) # <<>> \/ pg.asin = AsinD)

\* whether an element with id "productTitle" is present on a page
HasProductTitle(pg) == pg.kind = "product"

\* --------------------------------------------------------------------- state

\* the default of fetch_reviews_selenium's num_pages
num_pages == 500

\* how many review elements the environment may make unreadable in one run
MaxSkips == 2

\* the requests served by the one module-level analyzer
Requests == {1, 2}

UrlA == <<"h", "t", "t", "p", "s", ":", "/", "/", "w", "w", "w", ".", "a", "m", "a", "z", "o", "n", ".", "c", "o", "m", "/", "W", "i", "d", "g", "e", "t", "-", "A", "/", "d", "p", "/", "B", "0", "0", "0", "0", "0", "0", "0", "0", "A", "?", "r", "e", "f", "=", "s", "r", "_", "1">>

UrlB == <<"h", "t", "t", "p", "s", ":", "/", "/", "w", "w", "w", ".", "a", "m", "a", "z", "o", "n", ".", "c", "o", "m", "/", "g", "p", "/", "p", "r", "o", "d", "u", "c", "t", "/", "B", "0", "0", "0", "0", "0", "0", "0", "0", "B">>

UrlD == <<"h", "t", "t", "p", "s", ":", "/", "/", "w", "w", "w", ".", "a", "m", "a", "z", "o", "n", ".", "c", "o", "m", "/", "d", "p", "/", "B", "0", "0", "0", "0", "0", "0", "0", "0", "D">>

UrlP == <<"h", "t", "t", "p", "s", ":", "/", "/", "w", "w", "w", ".", "a", "m", "a", "z", "o", "n", ".", "c", "o", "m", "/", "d", "p", "/", "B", "0", "0", "0", "0", "0", "0", "0", "0", "P">>

UrlQ == <<"h", "t", "t", "p", "s", ":", "/", "/", "w", "w", "w", ".", "a", "m", "a", "z", "o", "n", ".", "c", "o", "m", "/", "d", "p", "/", "B", "0", "0", "0", "0", "0", "0", "0", "0", "Q">>

UrlLowerAsin == <<"h", "t", "t", "p", "s", ":", "/", "/", "w", "w", "w", ".", "a", "m", "a", "z", "o", "n", ".", "c", "o", "m", "/", "d", "p", "/", "b", "0", "0", "0", "0", "0", "0", "0", "0", "a">>

UrlShortAsin == <<"h", "t", "t", "p", "s", ":", "/", "/", "w", "w", "w", ".", "a", "m", "a", "z", "o", "n", ".", "c", "o", "m", "/", "g", "p", "/", "p", "r", "o", "d", "u", "c", "t", "/", "B", "0", "0", "0", "0">>

UrlNoScheme == <<"w", "w", "w", ".", "a", "m", "a", "z", "o", "n", ".", "c", "o", "m", "/", "d", "p", "/", "B", "0", "0", "0", "0", "0", "0", "0", "0", "A">>

UrlEmpty == <<>>

SpecUrls == {UrlA, UrlB, UrlD, UrlP, UrlLowerAsin, UrlShortAsin, UrlNoScheme, UrlEmpty}

ConcUrls == {UrlP, UrlQ, UrlLowerAsin, UrlEmpty}

VARIABLES
  pc,              \* where each request stands
  url,             \* data.get('url') of each request
  response,        \* what analyze returned: status, JSON key, body
  driver,          \* analyzer.driver: the page the one browser shows
  stale,           \* whether the browser navigated after the request's find_elements
  skips,           \* review elements the environment may still make unreadable
  reviews,         \* fetch_reviews_selenium: reviews
  review_url,      \*                         review_url
  page,            \*                         page
  review_elements, \*                         review_elements
  idx,             \*                         position of the inner for loop
  requested,       \* the page numbers the request passed to driver.get, in call order
  product_title,   \* generate_summary: product_title
  positive_themes, \*                   positive_themes
  negative_themes, \*                   negative_themes
  sentiment_desc,  \*                   sentiment_desc
  summary          \*                   summary

vars == <<pc, url, response, driver, stale, skips, reviews, review_url, page,
          review_elements, idx, requested, product_title, positive_themes, negative_themes,
          sentiment_desc, summary>>

fetchVars == <<reviews, review_url, page, review_elements, idx, requested>>

summaryVars == <<product_title, positive_themes, negative_themes, sentiment_desc, summary>>

NoResponse == [status |-> 0, key |-> "", body |-> <<>>]

InitLocals ==
  /\ response = [r \in Requests |-> NoResponse]
  /\ driver = Blank
  /\ stale = [r \in Requests |-> FALSE]
  /\ reviews = [r \in Requests |-> <<>>]
  /\ review_url = [r \in Requests |-> <<>>]
  /\ page = [r \in Requests |-> 0]
  /\ review_elements = [r \in Requests |-> <<>>]
  /\ idx = [r \in Requests |-> 0]
  /\ requested = [r \in Requests |-> <<>>]
  /\ product_title = [r \in Requests |-> <<>>]
  /\ positive_themes = [r \in Requests |-> <<>>]
  /\ negative_themes = [r \in Requests |-> <<>>]
  /\ sentiment_desc = [r \in Requests |-> <<>>]
  /\ summary = [r \in Requests |-> <<>>]

\* one request at a time
Init ==
  /\ url \in {u \in [Requests -> SpecUrls] : \A r \in Requests : r # 1 => u[r] = UrlEmpty}
  /\ pc = [r \in Requests |-> IF r = 1 THEN "analyze" ELSE "off"]
  /\ skips = MaxSkips
  /\ InitLocals

\* two requests in flight at once (Flask serves each request on its own thread)
InitConc ==
  /\ url \in [Requests -> ConcUrls]
  /\ pc = [r \in Requests |-> "analyze"]
  /\ skips = 0
  /\ InitLocals

\* ------------------------------------------------------------------- analyze

\* analyze, up to the call of scrape_amazon_reviews
Analyze(r) ==
  /\ pc[r] = "analyze"
  /\ IF url[r] = <<>>
       THEN /\ response' = [response EXCEPT ![r] =
                 [status |-> 400, key |-> "error", body |-> <<"U", "R", "L", " ", "i", "s", " ", "r", "e", "q", "u", "i", "r", "e", "d", ".">>]]
            /\ pc' = [pc EXCEPT ![r] = "done"]
       ELSE /\ pc' = [pc EXCEPT ![r] = "clean_url"]
            /\ UNCHANGED response
  /\ UNCHANGED <<url, driver, stale, skips, fetchVars, summaryVars>>

\* ------------------------------------------------------ fetch_reviews_selenium

\* reviews = []; clean_url and get_review_url inside the outer try
FetchStart(r) ==
  /\ pc[r] = "clean_url"
  /\ reviews' = [reviews EXCEPT ![r] = <<>>]
  /\ IF CleanUrlRaises(url[r])
       THEN /\ pc' = [pc EXCEPT ![r] = "fetch_return"]
            /\ UNCHANGED <<review_url, page>>
       ELSE /\ review_url' = [review_url EXCEPT ![r] =
                 get_review_url(clean_url(url[r]).domain, clean_url(url[r]).asin)]
            /\ page' = [page EXCEPT ![r] = 1]
            /\ pc' = [pc EXCEPT ![r] = "for_page"]
  /\ UNCHANGED <<url, response, driver, stale, skips, review_elements, idx, requested, summaryVars>>

\* for page in range(1, num_pages + 1)
ForPage(r) ==
  /\ pc[r] = "for_page"
  /\ pc' = [pc EXCEPT ![r] = IF page[r] <= num_pages THEN "get" ELSE "fetch_return"]
  /\ UNCHANGED <<url, response, driver, stale, skips, fetchVars, summaryVars>>

\* DriverGet with  continue  in place of  break : a failed page is passed over
DriverGetContinue(r, loaded) ==
  /\ pc[r] = "get"
  /\ LET pg == Route(PageUrl(review_url[r], page[r]))
     IN  IF loaded /\ pg.kind # "unreachable"
           THEN /\ driver' = pg
                /\ pc' = [pc EXCEPT ![r] = "wait"]
                /\ UNCHANGED page
           ELSE /\ driver' = ErrorPage
                /\ pc' = [pc EXCEPT ![r] = "for_page"]
                /\ page' = [page EXCEPT ![r] = @ + 1]
  /\ stale' = [q \in Requests |-> TRUE]
  /\ requested' = [requested EXCEPT ![r] = Append(@, page[r])]
  /\ UNCHANGED <<url, response, skips, reviews, review_url, review_elements, idx, summaryVars>>

\* self.driver.get(page_url); loaded says whether the browser got the page
DriverGet(r, loaded) ==
  /\ pc[r] = "get"
  /\ LET pg == Route(PageUrl(review_url[r], page[r]))
     IN  IF loaded /\ pg.kind # "unreachable"
           THEN /\ driver' = pg
                /\ pc' = [pc EXCEPT ![r] = "wait"]
           ELSE /\ driver' = ErrorPage
                /\ pc' = [pc EXCEPT ![r] = "fetch_return"]
  /\ stale' = [q \in Requests |-> TRUE]
  /\ requested' = [requested EXCEPT ![r] = Append(@, page[r])]
  /\ UNCHANGED <<url, response, skips, reviews, review_url, page, review_elements, idx, summaryVars>>

\* WebDriverWait(self.driver, 15).until(presence of class "review")
WaitForReviews(r) ==
  /\ pc[r] = "wait"
  /\ pc' = [pc EXCEPT ![r] = IF HasReviewClass(driver) THEN "find" ELSE "fetch_return"]
  /\ UNCHANGED <<url, response, driver, stale, skips, fetchVars, summaryVars>>

\* review_elements = self.driver.find_elements(...)
FindElements(r) ==
  /\ pc[r] = "find"
  /\ review_elements' = [review_elements EXCEPT ![r] = ReviewElementsOn(driver)]
  /\ idx' = [idx EXCEPT ![r] = 1]
  /\ stale' = [stale EXCEPT ![r] = FALSE]
  /\ pc' = [pc EXCEPT ![r] = "for_review"]
  /\ UNCHANGED <<url, response, driver, skips, reviews, review_url, page, requested, summaryVars>>

\* float(token) raises ValueError unless token reads d.d
FloatRaises(token) ==
  ~ /\ Len(token) = 3
    /\ IsDigits(<<token[1]>>) /\ token[2] = "." /\ IsDigits(<<token[3]>>)

\* float(token) in tenths
FloatTenths(token) == 10 * ParseInt(<<token[1]>>) + ParseInt(<<token[3]>>)

\* rating_text.split(' ')[0]
RatingToken(stars) == Split(stars, " ")[1]

\* review_data of one element: the stripped body, the rating, the sentiment
ReviewData(el) ==
  [text      |-> Strip(el.body),
   rating    |-> FloatTenths(RatingToken(el.stars)),
   sentiment |-> analyze_sentiment(Strip(el.body))]

\* one pass of  for review in review_elements ; unreadable: the environment
\* makes a find_element of this pass raise
ParseReview(r, unreadable) ==
  /\ pc[r] = "for_review"
  /\ idx[r] <= Len(review_elements[r])
  /\ unreadable => skips > 0
  /\ skips' = IF unreadable THEN skips - 1 ELSE skips
  /\ LET el == review_elements[r][idx[r]]
     IN  IF stale[r] \/ unreadable \/ FloatRaises(RatingToken(el.stars))
           THEN UNCHANGED reviews
           ELSE reviews' = [reviews EXCEPT ![r] = Append(@, ReviewData(el))]
  /\ idx' = [idx EXCEPT ![r] = @ + 1]
  /\ UNCHANGED <<pc, url, response, driver, stale, review_url, page, review_elements, requested, summaryVars>>

\* the inner loop is over: print, next page
EndPage(r) ==
  /\ pc[r] = "for_review"
  /\ idx[r] > Len(review_elements[r])
  /\ page' = [page EXCEPT ![r] = @ + 1]
  /\ pc' = [pc EXCEPT ![r] = "for_page"]
  /\ UNCHANGED <<url, response, driver, stale, skips, reviews, review_url, review_elements, idx, requested, summaryVars>>

\* ---------------------------------------------------------- generate_summary

NoReviewsMessage == <<"N", "o", " ", "r", "e", "v", "i", "e", "w", "s", " ", "f", "o", "u", "n", "d", " ", "f", "o", "r", " ", "a", "n", "a", "l", "y", "s", "i", "s", ".">>

DefaultTitle == <<"P", "r", "o", "d", "u", "c", "t">>

Count(review_list, sentiment) ==
  Cardinality({i \in 1..Len(review_list) : review_list[i].sentiment = sentiment})

\* (count / total) * 100 >= percent.  The float product compares with 60, 70
\* and 80 as the exact ratio does for every total up to 400 (checked against
\* Python), so the comparison is made on integers.
PercentAtLeast(count, total, percent) == 100 * count >= percent * total

RECURSIVE RatingSum(_)
\* the sum of the ratings, in tenths
RatingSum(review_list) ==
  IF review_list = <<>> THEN 0
  ELSE review_list[1].rating + RatingSum(Tail(review_list))

\* df['rating'].mean() >= stars, stars in tenths: the mean is sum / total
MeanAtLeast(review_list, tenths) ==
  RatingSum(review_list) >= tenths * Len(review_list)

\* f"{avg_rating:.1f}": the mean to one decimal, a tie going to the even digit
\* (with under 20 reviews of whole stars every tie is a binary fraction, so
\* the double is the exact mean)
FormatMean(review_list) ==
  LET s == RatingSum(review_list)
      n == Len(review_list)
      q == s \div n
      m == IF 2 * (s % n) > n THEN q + 1
           ELSE IF 2 * (s % n) < n THEN q
           ELSE IF q % 2 = 0 THEN q ELSE q + 1
  IN  FormatInt(m \div 10) \o <<".">> \o FormatInt(m % 10)

DetailLen == 200

QuoteLen == 150

\* detailed_reviews filtered by sentiment: positive_reviews, negative_reviews,
\* neutral_reviews
Detailed(review_list, sentiment) ==
  SelectSeq(review_list,
            LAMBDA x : Len(x.text) > DetailLen /\ x.sentiment = sentiment)

common_aspects ==
  << [aspect |-> <<"q", "u", "a", "l", "i", "t", "y">>,
      keywords |-> <<<<"q", "u", "a", "l", "i", "t", "y">>, <<"b", "u", "i", "l", "d">>, <<"m", "a", "t", "e", "r", "i", "a", "l">>, <<"d", "u", "r", "a", "b", "i", "l", "i", "t", "y">>, <<"c", "o", "n", "s", "t", "r", "u", "c", "t", "i", "o", "n">>>>],
     [aspect |-> <<"v", "a", "l", "u", "e">>,
      keywords |-> <<<<"p", "r", "i", "c", "e">>, <<"v", "a", "l", "u", "e">>, <<"w", "o", "r", "t", "h">>, <<"c", "o", "s", "t">>, <<"e", "x", "p", "e", "n", "s", "i", "v", "e">>, <<"c", "h", "e", "a", "p">>>>],
     [aspect |-> <<"p", "e", "r", "f", "o", "r", "m", "a", "n", "c", "e">>,
      keywords |-> <<<<"p", "e", "r", "f", "o", "r", "m", "a", "n", "c", "e">>, <<"s", "p", "e", "e", "d">>, <<"f", "a", "s", "t">>, <<"s", "l", "o", "w">>, <<"e", "f", "f", "i", "c", "i", "e", "n", "t">>>>],
     [aspect |-> <<"f", "e", "a", "t", "u", "r", "e", "s">>,
      keywords |-> <<<<"f", "e", "a", "t", "u", "r", "e">>, <<"f", "u", "n", "c", "t", "i", "o", "n", "a", "l", "i", "t", "y">>, <<"o", "p", "t", "i", "o", "n", "s">>, <<"c", "a", "p", "a", "b", "i", "l", "i", "t", "i", "e", "s">>>>],
     [aspect |-> <<"d", "e", "s", "i", "g", "n">>,
      keywords |-> <<<<"d", "e", "s", "i", "g", "n">>, <<"l", "o", "o", "k">>, <<"a", "e", "s", "t", "h", "e", "t", "i", "c">>, <<"s", "t", "y", "l", "e">>, <<"a", "p", "p", "e", "a", "r", "a", "n", "c", "e">>>>],
     [aspect |-> <<"u", "s", "a", "b", "i", "l", "i", "t", "y">>,
      keywords |-> <<<<"e", "a", "s", "y">>, <<"s", "i", "m", "p", "l", "e">>, <<"i", "n", "t", "u", "i", "t", "i", "v", "e">>, <<"u", "s", "e", "r", "-", "f", "r", "i", "e", "n", "d", "l", "y">>, <<"d", "i", "f", "f", "i", "c", "u", "l", "t">>>>],
     [aspect |-> <<"r", "e", "l", "i", "a", "b", "i", "l", "i", "t", "y">>,
      keywords |-> <<<<"r", "e", "l", "i", "a", "b", "l", "e">>, <<"c", "o", "n", "s", "i", "s", "t", "e", "n", "t">>, <<"s", "t", "a", "b", "l", "e">>, <<"i", "s", "s", "u", "e", "s">>, <<"p", "r", "o", "b", "l", "e", "m", "s">>>>],
     [aspect |-> <<"s", "u", "p", "p", "o", "r", "t">>,
      keywords |-> <<<<"s", "u", "p", "p", "o", "r", "t">>, <<"c", "u", "s", "t", "o", "m", "e", "r", " ", "s", "e", "r", "v", "i", "c", "e">>, <<"w", "a", "r", "r", "a", "n", "t", "y">>, <<"h", "e", "l", "p">>>>] >>

\* any(keyword in s for keyword in keywords)
AnyKeyword(keywords, s) == \E k \in 1..Len(keywords) : Contains(keywords[k], s)

RECURSIVE RelevantFrom(_, _, _)
RelevantFrom(keywords, sentences, i) ==
  IF i > Len(sentences) THEN <<>>
  ELSE (IF AnyKeyword(keywords, sentences[i]) /\ Strip(sentences[i]) # <<>>
          THEN <<Strip(sentences[i])>> ELSE <<>>)
       \o RelevantFrom(keywords, sentences, i + 1)

RECURSIVE Reverse(_)
Reverse(s) == IF s = <<>> THEN <<>> ELSE Reverse(Tail(s)) \o <<Head(s)>>

\* RelevantSentences with the matching segments in reverse order, so that
\* relevant_sentences[0] is the last match
RelevantSentencesLastFirst(keywords, text) ==
  Reverse(RelevantFrom(keywords, Split(text, "."), 1))

\* relevant_sentences of extract_themes for one text and one aspect's keywords
RelevantSentences(keywords, text) == RelevantFrom(keywords, Split(text, "."), 1)

\* themes[aspect].append(sentence) on a defaultdict(list): a new key goes last
ThemeAppend(themes, aspect, sentence) ==
  IF \E k \in 1..Len(themes) : themes[k].aspect = aspect
    THEN [k \in 1..Len(themes) |->
            IF themes[k].aspect = aspect
              THEN [themes[k] EXCEPT !.comments = Append(@, sentence)]
              ELSE themes[k]]
    ELSE Append(themes, [aspect |-> aspect, comments |-> <<sentence>>])

RECURSIVE ThemesOfText(_, _, _)
\* the loop over common_aspects.items() for one review, from aspect a on
ThemesOfText(themes, text, a) ==
  IF a > Len(common_aspects) THEN themes
  ELSE LET kws == common_aspects[a].keywords
           rel == RelevantSentences(kws, text)
       IN  ThemesOfText(
             IF AnyKeyword(kws, text) /\ rel # <<>>
               THEN ThemeAppend(themes, common_aspects[a].aspect, rel[1])
               ELSE themes,
             text, a + 1)

RECURSIVE ExtractFrom(_, _, _)
ExtractFrom(themes, review_list, i) ==
  IF i > Len(review_list) THEN themes
  ELSE ExtractFrom(ThemesOfText(themes, Lower(review_list[i].text), 1), review_list, i + 1)

\* extract_themes(review_list): the aspects in insertion order, each with its
\* comments
extract_themes(review_list) == ExtractFrom(<<>>, review_list, 1)

\* SentimentDesc with the percentages taken over the detailed reviews only
SentimentDescDetailed(review_list) ==
  LET total == Len(Detailed(review_list, "Positive")) + Len(Detailed(review_list, "Negative"))
               + Len(Detailed(review_list, "Neutral"))
      pos   == Len(Detailed(review_list, "Positive"))
      neg   == Len(Detailed(review_list, "Negative"))
  IN  IF PercentAtLeast(pos, total, 80) THEN <<"o", "v", "e", "r", "w", "h", "e", "l", "m", "i", "n", "g", "l", "y", " ", "p", "o", "s", "i", "t", "i", "v", "e", " ", "r", "e", "v", "i", "e", "w", "s">>
      ELSE IF PercentAtLeast(pos, total, 70) THEN <<"l", "a", "r", "g", "e", "l", "y", " ", "p", "o", "s", "i", "t", "i", "v", "e", " ", "r", "e", "v", "i", "e", "w", "s">>
      ELSE IF PercentAtLeast(pos, total, 60) THEN <<"g", "e", "n", "e", "r", "a", "l", "l", "y", " ", "p", "o", "s", "i", "t", "i", "v", "e", " ", "r", "e", "v", "i", "e", "w", "s">>
      ELSE IF PercentAtLeast(neg, total, 60) THEN <<"g", "e", "n", "e", "r", "a", "l", "l", "y", " ", "n", "e", "g", "a", "t", "i", "v", "e", " ", "r", "e", "v", "i", "e", "w", "s">>
      ELSE <<"m", "i", "x", "e", "d", " ", "r", "e", "v", "i", "e", "w", "s">>

\* sentiment_desc
SentimentDesc(review_list) ==
  LET total == Len(review_list)
      pos   == Count(review_list, "Positive")
      neg   == Count(review_list, "Negative")
  IN  IF PercentAtLeast(pos, total, 80) THEN <<"o", "v", "e", "r", "w", "h", "e", "l", "m", "i", "n", "g", "l", "y", " ", "p", "o", "s", "i", "t", "i", "v", "e", " ", "r", "e", "v", "i", "e", "w", "s">>
      ELSE IF PercentAtLeast(pos, total, 70) THEN <<"l", "a", "r", "g", "e", "l", "y", " ", "p", "o", "s", "i", "t", "i", "v", "e", " ", "r", "e", "v", "i", "e", "w", "s">>
      ELSE IF PercentAtLeast(pos, total, 60) THEN <<"g", "e", "n", "e", "r", "a", "l", "l", "y", " ", "p", "o", "s", "i", "t", "i", "v", "e", " ", "r", "e", "v", "i", "e", "w", "s">>
      ELSE IF PercentAtLeast(neg, total, 60) THEN <<"g", "e", "n", "e", "r", "a", "l", "l", "y", " ", "n", "e", "g", "a", "t", "i", "v", "e", " ", "r", "e", "v", "i", "e", "w", "s">>
      ELSE <<"m", "i", "x", "e", "d", " ", "r", "e", "v", "i", "e", "w", "s">>

\* the first summary string
OpeningSentence(review_list, title, desc) ==
  <<"B", "a", "s", "e", "d", " ", "o", "n", " ", "a", " ", "d", "e", "t", "a", "i", "l", "e", "d", " ", "a", "n", "a", "l", "y", "s", "i", "s", " ", "o", "f", " ">> \o FormatInt(Len(review_list))
  \o <<" ", "c", "u", "s", "t", "o", "m", "e", "r", " ", "r", "e", "v", "i", "e", "w", "s", ",", " ", "t", "h", "e", " ">> \o title \o <<" ", "h", "a", "s", " ", "r", "e", "c", "e", "i", "v", "e", "d", " ">> \o desc
  \o <<" ", "w", "i", "t", "h", " ", "a", "n", " ", "a", "v", "e", "r", "a", "g", "e", " ", "r", "a", "t", "i", "n", "g", " ", "o", "f", " ">> \o FormatMean(review_list)
  \o <<" ", "o", "u", "t", " ", "o", "f", " ", "5", " ", "s", "t", "a", "r", "s", ".", " ">>

\* positive_points / negative_points: "the {aspect} ({example})" per aspect
Points(themes) ==
  [k \in 1..Len(themes) |->
     <<"t", "h", "e", " ">> \o themes[k].aspect \o <<" ", "(">> \o MaxByLen(themes[k].comments) \o <<")">>]

\* PointsText with every item joined by ", "
PointsTextCommas(points) ==
  IF points = <<>> THEN <<>> ELSE Join(<<",", " ">>, points) \o <<".", " ">>

\* what the themes block adds to summary after its lead-in
PointsText(points) ==
  IF points = <<>> THEN <<>>
  ELSE Join(<<",", " ">>, SubSeq(points, 1, Len(points) - 1))
       \o (IF Len(points) > 1 THEN <<",", " ", "a", "n", "d", " ">> \o points[Len(points)] ELSE points[1])
       \o <<".", " ">>

PositiveLead == <<"T", "h", "e", " ", "s", "t", "a", "n", "d", "o", "u", "t", " ", "f", "e", "a", "t", "u", "r", "e", "s", " ", "p", "r", "a", "i", "s", "e", "d", " ", "b", "y", " ", "c", "u", "s", "t", "o", "m", "e", "r", "s", " ", "i", "n", "c", "l", "u", "d", "e", " ">>

NegativeLead == <<"H", "o", "w", "e", "v", "e", "r", ",", " ", "s", "o", "m", "e", " ", "u", "s", "e", "r", "s", " ", "h", "a", "v", "e", " ", "e", "x", "p", "r", "e", "s", "s", "e", "d", " ", "c", "o", "n", "c", "e", "r", "n", "s", " ", "a", "b", "o", "u", "t", " ">>

\* the  if positive_themes:  /  if negative_themes:  block
ThemesClause(lead, themes) ==
  IF themes = <<>> THEN <<>> ELSE lead \o PointsText(Points(themes))

\* max(neutral_reviews, key=lambda x: len(x['text']))
BalancedOpinion(neutral_reviews) ==
  neutral_reviews[CHOOSE i \in 1..Len(neutral_reviews) :
    /\ \A j \in 1..Len(neutral_reviews) :
         Len(neutral_reviews[j].text) <= Len(neutral_reviews[i].text)
    /\ \A j \in 1..(i - 1) :
         Len(neutral_reviews[j].text) < Len(neutral_reviews[i].text)]

\* Quote without the slice
QuoteAll(text) == text

\* text[:150]
Quote(text) == SubSeq(text, 1, IF Len(text) < QuoteLen THEN Len(text) ELSE QuoteLen)

NeutralLead == <<"A", " ", "b", "a", "l", "a", "n", "c", "e", "d", " ", "p", "e", "r", "s", "p", "e", "c", "t", "i", "v", "e", " ", "f", "r", "o", "m", " ", "u", "s", "e", "r", "s", " ", "n", "o", "t", "e", "s", " ", "t", "h", "a", "t", " ">>

\* the  if neutral_reviews:  block
NeutralClause(neutral_reviews) ==
  IF neutral_reviews = <<>> THEN <<>>
  ELSE NeutralLead \o Quote(BalancedOpinion(neutral_reviews).text) \o <<".", ".", ".", " ">>

StrongClosing == <<"G", "i", "v", "e", "n", " ", "t", "h", "e", " ", "s", "u", "b", "s", "t", "a", "n", "t", "i", "a", "l", " ", "p", "o", "s", "i", "t", "i", "v", "e", " ", "f", "e", "e", "d", "b", "a", "c", "k", " ", "a", "n", "d", " ", "h", "i", "g", "h", " ", "a", "v", "e", "r", "a", "g", "e", " ", "r", "a", "t", "i", "n", "g", ",", " ", "t", "h", "i", "s", " ", "p", "r", "o", "d", "u", "c", "t", " ", "c", "o", "m", "e", "s", " ", "h", "i", "g", "h", "l", "y", " ", "r", "e", "c", "o", "m", "m", "e", "n", "d", "e", "d", " ", "b", "y", " ", "t", "h", "e", " ", "m", "a", "j", "o", "r", "i", "t", "y", " ", "o", "f", " ", "u", "s", "e", "r", "s", ",", " ", "p", "a", "r", "t", "i", "c", "u", "l", "a", "r", "l", "y", " ", "f", "o", "r", " ", "t", "h", "o", "s", "e", " ", "v", "a", "l", "u", "i", "n", "g", " ">>

CautiousClosing == <<"W", "h", "i", "l", "e", " ", "m", "o", "s", "t", " ", "u", "s", "e", "r", "s", " ", "a", "r", "e", " ", "s", "a", "t", "i", "s", "f", "i", "e", "d", " ", "w", "i", "t", "h", " ", "t", "h", "e", "i", "r", " ", "p", "u", "r", "c", "h", "a", "s", "e", ",", " ", "p", "o", "t", "e", "n", "t", "i", "a", "l", " ", "b", "u", "y", "e", "r", "s", " ", "s", "h", "o", "u", "l", "d", " ", "w", "e", "i", "g", "h", " ", "t", "h", "e", " ", "p", "r", "a", "i", "s", "e", "d", " ", "a", "s", "p", "e", "c", "t", "s", " ", "a", "g", "a", "i", "n", "s", "t", " ", "t", "h", "e", " ", "r", "e", "p", "o", "r", "t", "e", "d", " ", "l", "i", "m", "i", "t", "a", "t", "i", "o", "n", "s", " ", "t", "o", " ", "e", "n", "s", "u", "r", "e", " ", "i", "t", " ", "m", "e", "e", "t", "s", " ", "t", "h", "e", "i", "r", " ", "s", "p", "e", "c", "i", "f", "i", "c", " ", "n", "e", "e", "d", "s", ".">>

MixedClosing == <<"G", "i", "v", "e", "n", " ", "t", "h", "e", " ", "m", "i", "x", "e", "d", " ", "f", "e", "e", "d", "b", "a", "c", "k", ",", " ", "p", "o", "t", "e", "n", "t", "i", "a", "l", " ", "b", "u", "y", "e", "r", "s", " ", "m", "a", "y", " ", "w", "a", "n", "t", " ", "t", "o", " ", "e", "x", "p", "l", "o", "r", "e", " ", "o", "t", "h", "e", "r", " ", "o", "p", "t", "i", "o", "n", "s", " ", "o", "r", " ", "c", "o", "n", "s", "i", "d", "e", "r", " ", "s", "p", "e", "c", "i", "f", "i", "c", " ", "u", "s", "e", " ", "c", "a", "s", "e", "s", " ", "b", "e", "f", "o", "r", "e", " ", "d", "e", "c", "i", "d", "i", "n", "g", ".">>

\* " and ".join(list(positive_themes.keys())[:2]) + "."
ValuedAspects(themes) ==
  Join(<<" ", "a", "n", "d", " ">>, [k \in 1..(IF Len(themes) < 2 THEN Len(themes) ELSE 2) |-> themes[k].aspect])
  \o <<".">>

\* Closing with  or  in place of  and  in both conditions
ClosingOr(review_list, themes) ==
  LET pos == Count(review_list, "Positive")
  IN  IF MeanAtLeast(review_list, 40) \/ PercentAtLeast(pos, Len(review_list), 70)
        THEN StrongClosing \o ValuedAspects(themes)
      ELSE IF MeanAtLeast(review_list, 35) \/ PercentAtLeast(pos, Len(review_list), 60)
        THEN CautiousClosing
      ELSE MixedClosing

\* the closing if / elif / else
Closing(review_list, themes) ==
  LET pos == Count(review_list, "Positive")
  IN  IF MeanAtLeast(review_list, 40) /\ PercentAtLeast(pos, Len(review_list), 70)
        THEN StrongClosing \o ValuedAspects(themes)
      ELSE IF MeanAtLeast(review_list, 35) /\ PercentAtLeast(pos, Len(review_list), 60)
        THEN CautiousClosing
      ELSE MixedClosing

\* GenerateSummary without the  if not reviews  guard
GenerateSummaryNoGuard(r) ==
  /\ pc[r] = "fetch_return"
  /\ pc' = [pc EXCEPT ![r] = "title_get"]
  /\ UNCHANGED <<url, response, driver, stale, skips, fetchVars, summaryVars>>

\* scrape_amazon_reviews hands reviews to generate_summary:  if not reviews
GenerateSummary(r) ==
  /\ pc[r] = "fetch_return"
  /\ IF reviews[r] = <<>>
       THEN /\ summary' = [summary EXCEPT ![r] = NoReviewsMessage]
            /\ pc' = [pc EXCEPT ![r] = "respond"]
       ELSE /\ pc' = [pc EXCEPT ![r] = "title_get"]
            /\ UNCHANGED summary
  /\ UNCHANGED <<url, response, driver, stale, skips, fetchVars,
                 product_title, positive_themes, negative_themes, sentiment_desc>>

\* clean_url(url); self.driver.get(url)  inside try / except: "Product"
TitleGet(r, loaded) ==
  /\ pc[r] = "title_get"
  /\ IF CleanUrlRaises(url[r])
       THEN /\ product_title' = [product_title EXCEPT ![r] = DefaultTitle]
            /\ pc' = [pc EXCEPT ![r] = "opening"]
            /\ UNCHANGED <<driver, stale>>
       ELSE /\ stale' = [q \in Requests |-> TRUE]
            /\ IF loaded /\ Route(url[r]).kind # "unreachable"
                 THEN /\ driver' = Route(url[r])
                      /\ pc' = [pc EXCEPT ![r] = "title_wait"]
                      /\ UNCHANGED product_title
                 ELSE /\ driver' = ErrorPage
                      /\ product_title' = [product_title EXCEPT ![r] = DefaultTitle]
                      /\ pc' = [pc EXCEPT ![r] = "opening"]
  /\ UNCHANGED <<url, response, skips, fetchVars,
                 positive_themes, negative_themes, sentiment_desc, summary>>

\* WebDriverWait(self.driver, 10).until(presence of id "productTitle").text.strip()
TitleWait(r) ==
  /\ pc[r] = "title_wait"
  /\ product_title' = [product_title EXCEPT ![r] =
       IF HasProductTitle(driver) THEN Strip(TitleText(driver.asin)) ELSE DefaultTitle]
  /\ pc' = [pc EXCEPT ![r] = "opening"]
  /\ UNCHANGED <<url, response, driver, stale, skips, fetchVars,
                 positive_themes, negative_themes, sentiment_desc, summary>>

\* from df = pd.DataFrame(reviews) to the first assignment of summary
Opening(r) ==
  /\ pc[r] = "opening"
  /\ positive_themes' = [positive_themes EXCEPT ![r] =
       extract_themes(Detailed(reviews[r], "Positive"))]
  /\ negative_themes' = [negative_themes EXCEPT ![r] =
       extract_themes(Detailed(reviews[r], "Negative"))]
  /\ sentiment_desc' = [sentiment_desc EXCEPT ![r] = SentimentDesc(reviews[r])]
  /\ summary' = [summary EXCEPT ![r] =
       OpeningSentence(reviews[r], product_title[r], SentimentDesc(reviews[r]))]
  /\ pc' = [pc EXCEPT ![r] = "positive"]
  /\ UNCHANGED <<url, response, driver, stale, skips, fetchVars, product_title>>

\* if positive_themes: ...
PositiveBlock(r) ==
  /\ pc[r] = "positive"
  /\ summary' = [summary EXCEPT ![r] = @ \o ThemesClause(PositiveLead, positive_themes[r])]
  /\ pc' = [pc EXCEPT ![r] = "neutral"]
  /\ UNCHANGED <<url, response, driver, stale, skips, fetchVars,
                 product_title, positive_themes, negative_themes, sentiment_desc>>

\* if neutral_reviews: ...
NeutralBlock(r) ==
  /\ pc[r] = "neutral"
  /\ summary' = [summary EXCEPT ![r] = @ \o NeutralClause(Detailed(reviews[r], "Neutral"))]
  /\ pc' = [pc EXCEPT ![r] = "negative"]
  /\ UNCHANGED <<url, response, driver, stale, skips, fetchVars,
                 product_title, positive_themes, negative_themes, sentiment_desc>>

\* if negative_themes: ...
NegativeBlock(r) ==
  /\ pc[r] = "negative"
  /\ summary' = [summary EXCEPT ![r] = @ \o ThemesClause(NegativeLead, negative_themes[r])]
  /\ pc' = [pc EXCEPT ![r] = "closing"]
  /\ UNCHANGED <<url, response, driver, stale, skips, fetchVars,
                 product_title, positive_themes, negative_themes, sentiment_desc>>

\* the closing if / elif / else; return summary
ClosingBlock(r) ==
  /\ pc[r] = "closing"
  /\ summary' = [summary EXCEPT ![r] = @ \o Closing(reviews[r], positive_themes[r])]
  /\ pc' = [pc EXCEPT ![r] = "respond"]
  /\ UNCHANGED <<url, response, driver, stale, skips, fetchVars,
                 product_title, positive_themes, negative_themes, sentiment_desc>>

\* analyze: return jsonify({'summary': summary}), 200.  Nothing below
\* scrape_amazon_reviews raises, so the except branch (500) is never taken.
Respond(r) ==
  /\ pc[r] = "respond"
  /\ response' = [response EXCEPT ![r] =
       [status |-> 200, key |-> "summary", body |-> summary[r]]]
  /\ pc' = [pc EXCEPT ![r] = "done"]
  /\ UNCHANGED <<url, driver, stale, skips, fetchVars, summaryVars>>

Next ==
  \E r \in Requests :
    \/ Analyze(r)
    \/ FetchStart(r)
    \/ ForPage(r)
    \/ \E loaded \in BOOLEAN : DriverGet(r, loaded)
    \/ WaitForReviews(r)
    \/ FindElements(r)
    \/ \E unreadable \in BOOLEAN : ParseReview(r, unreadable)
    \/ EndPage(r)
    \/ GenerateSummary(r)
    \/ \E loaded \in BOOLEAN : TitleGet(r, loaded)
    \/ TitleWait(r)
    \/ Opening(r)
    \/ PositiveBlock(r)
    \/ NeutralBlock(r)
    \/ NegativeBlock(r)
    \/ ClosingBlock(r)
    \/ Respond(r)

\* one request at a time
Spec == Init /\ [][Next]_vars

\* two requests at once on the shared driver
SpecConc == InitConc /\ [][Next]_vars

\* -------------------------------------------------------------------- claims

EndsWith(s, tail) ==
  Len(s) >= Len(tail) /\ SubSeq(s, Len(s) - Len(tail) + 1, Len(s)) = tail

IsPrefix(s, t) == Len(s) <= Len(t) /\ SubSeq(t, 1, Len(s)) = s

\* the positions of a request once fetch_reviews_selenium has returned
AfterFetch ==
  {"fetch_return", "title_get", "title_wait", "opening", "positive", "neutral",
   "negative", "closing", "respond", "done"}

\* the positions inside generate_summary past the empty-corpus guard
PastGuard == {"title_get", "title_wait", "opening", "positive", "neutral", "negative", "closing"}

\* the positions at which the opening sentence has been written
AfterOpening == {"positive", "neutral", "negative", "closing", "respond", "done"}

\* C1: a request whose non-empty URL holds no valid ASIN ends in an error
\* response ({error}, not a 200 summary), and no page was requested for it.
C1_InvalidUrlEndsInError ==
  \A r \in Requests :
    (pc[r] = "done" /\ url[r] # <<>> /\ CleanUrlRaises(url[r]))
      => /\ response[r].key = "error"
         /\ response[r].status # 200
         /\ requested[r] = <<>>

\* the texts of the reviews the listing of a product shows
ListingTexts(asin) == {Strip(Listing(asin)[i].body) : i \in 1..Len(Listing(asin))}

\* C2: when two requests for different products run at once, every review in
\* a request's corpus was read from the listing of its own product, and the
\* title it uses is its own product's (or the fallback when the title could not
\* be read): nothing of the other request reaches its summary.
C2_RequestsAreIndependent ==
  \A r, q \in Requests :
    (/\ r # q
     /\ ~CleanUrlRaises(url[r]) /\ ~CleanUrlRaises(url[q])
     /\ clean_url(url[r]).asin # clean_url(url[q]).asin)
      => /\ \A i \in 1..Len(reviews[r]) :
              reviews[r][i].text \in ListingTexts(clean_url(url[r]).asin)
         /\ product_title[r] \in
              {<<>>, DefaultTitle, Strip(TitleText(clean_url(url[r]).asin))}

\* what C3 asks of one step, for request r
C3_Step(r) ==
  \* what was collected stays, unchanged and in order
  /\ IsPrefix(reviews[r], reviews'[r])
  \* the pages are requested in the order 1, 2, 3, ..., none twice
  /\ requested'[r] # requested[r]
       => requested'[r] = Append(requested[r], Len(requested[r]) + 1)
  \* a driver.get that fails, or a wait that times out, ends the loop
  /\ (requested'[r] # requested[r] /\ driver' = ErrorPage) => pc'[r] = "fetch_return"
  /\ (pc[r] = "wait" /\ pc'[r] # "wait" /\ ~HasReviewClass(driver)) => pc'[r] = "fetch_return"
  \* once the loop has ended no page is requested and the corpus is fixed
  /\ pc[r] \in AfterFetch
       => /\ pc'[r] \in AfterFetch
          /\ reviews'[r] = reviews[r]
          /\ requested'[r] = requested[r]
  \* and the run goes on into generate_summary, to a summary response
  /\ (pc[r] = "fetch_return" /\ pc'[r] # "fetch_return")
       => pc'[r] = (IF reviews[r] = <<>> THEN "respond" ELSE "title_get")
  /\ (pc[r] = "respond" /\ pc'[r] = "done")
       => response'[r].key = "summary" /\ response'[r].status = 200

\* C3: the fetch loop requests the pages in increasing order from 1; at the
\* first page that fails no later page is requested and the page is not
\* retried, the reviews of the earlier pages stay in the corpus unchanged and in
\* order, and the run goes on to generate_summary on that corpus.
C3_FirstFailureEndsFetching == [][\A r \in Requests : C3_Step(r)]_vars

\* pages 1 and 2 were requested, page 2 failed, the reviews of page 1 are kept
\* and generate_summary runs on them
C3_Witness ==
  \E r \in Requests :
    /\ pc[r] = "title_get"
    /\ requested[r] = <<1, 2>>
    /\ driver = ErrorPage
    /\ Len(reviews[r]) = PageSize

\* C4: with an empty corpus (also after zero pages fetched successfully)
\* generate_summary returns exactly "No reviews found for analysis." and does
\* nothing else: no title is resolved, nothing is aggregated, no themes are
\* extracted, no clause is written.
C4_EmptyCorpusMessage ==
  \A r \in Requests :
    /\ pc[r] \in PastGuard => reviews[r] # <<>>
    /\ (pc[r] \in {"respond", "done"} /\ url[r] # <<>> /\ reviews[r] = <<>>)
         => /\ summary[r] = NoReviewsMessage
            /\ product_title[r] = <<>>
            /\ sentiment_desc[r] = <<>>
            /\ positive_themes[r] = <<>> /\ negative_themes[r] = <<>>
            /\ pc[r] = "done" =>
                 response[r] = [status |-> 200, key |-> "summary", body |-> NoReviewsMessage]

\* page 1 was requested and failed: zero pages fetched, the fixed message returned
C4_Witness ==
  \E r \in Requests :
    /\ pc[r] = "done"
    /\ requested[r] = <<1>>
    /\ reviews[r] = <<>>
    /\ response[r].body = NoReviewsMessage

\* the reviews of a corpus with a sentiment, counted over the whole corpus
WithSentiment(corpus, sentiment) ==
  {i \in 1..Len(corpus) : corpus[i].sentiment = sentiment}

\* the descriptor C5 names for a corpus: percentages of the whole corpus
\* against 80, 70, 60 (positive) and then 60 (negative), first match wins
C5_Descriptor(corpus) ==
  LET n == Len(corpus)
      p == Cardinality(WithSentiment(corpus, "Positive"))
      g == Cardinality(WithSentiment(corpus, "Negative"))
  IN  CASE 100 * p >= 80 * n -> <<"o", "v", "e", "r", "w", "h", "e", "l", "m", "i", "n", "g", "l", "y", " ", "p", "o", "s", "i", "t", "i", "v", "e", " ", "r", "e", "v", "i", "e", "w", "s">>
        [] 100 * p < 80 * n /\ 100 * p >= 70 * n -> <<"l", "a", "r", "g", "e", "l", "y", " ", "p", "o", "s", "i", "t", "i", "v", "e", " ", "r", "e", "v", "i", "e", "w", "s">>
        [] 100 * p < 70 * n /\ 100 * p >= 60 * n -> <<"g", "e", "n", "e", "r", "a", "l", "l", "y", " ", "p", "o", "s", "i", "t", "i", "v", "e", " ", "r", "e", "v", "i", "e", "w", "s">>
        [] 100 * p < 60 * n /\ 100 * g >= 60 * n -> <<"g", "e", "n", "e", "r", "a", "l", "l", "y", " ", "n", "e", "g", "a", "t", "i", "v", "e", " ", "r", "e", "v", "i", "e", "w", "s">>
        [] OTHER -> <<"m", "i", "x", "e", "d", " ", "r", "e", "v", "i", "e", "w", "s">>

\* C5: for a non-empty corpus the descriptor in the summary is the one the
\* whole-corpus positive and negative percentages select from the ordered
\* thresholds 80 / 70 / 60 (positive), 60 (negative), else "mixed reviews".
C5_DescriptorByWholeCorpus ==
  \A r \in Requests :
    pc[r] \in AfterOpening /\ reviews[r] # <<>>
      => /\ sentiment_desc[r] = C5_Descriptor(reviews[r])
         /\ Contains(<<" ", "h", "a", "s", " ", "r", "e", "c", "e", "i", "v", "e", "d", " ">> \o C5_Descriptor(reviews[r])
                       \o <<" ", "w", "i", "t", "h", " ", "a", "n", " ", "a", "v", "e", "r", "a", "g", "e", " ", "r", "a", "t", "i", "n", "g", " ", "o", "f", " ">>, summary[r])

\* three of four reviews are Positive (75%: "largely"), but only two of the
\* three reviews longer than 200 characters are (67%)
C5_Witness ==
  \E r \in Requests :
    /\ pc[r] = "done"
    /\ Len(reviews[r]) = 4
    /\ Cardinality(WithSentiment(reviews[r], "Positive")) = 3
    /\ Len(Detailed(reviews[r], "Positive")) = 2
    /\ Len(Detailed(reviews[r], "Neutral")) = 1
    /\ sentiment_desc[r] = <<"l", "a", "r", "g", "e", "l", "y", " ", "p", "o", "s", "i", "t", "i", "v", "e", " ", "r", "e", "v", "i", "e", "w", "s">>

\* the closing C6 names for a corpus: "strong", "cautious" or "mixed"
C6_Variant(corpus) ==
  LET n == Len(corpus)
      p == Cardinality(WithSentiment(corpus, "Positive"))
      s == RatingSum(corpus)
  IN  IF s >= 40 * n /\ 100 * p >= 70 * n THEN "strong"
      ELSE IF 2 * s >= 70 * n /\ 100 * p >= 60 * n THEN "cautious"
      ELSE "mixed"

\* how often the closing sentences occur in a summary
C6_Closings(s) ==
  [strong   |-> CountOcc(StrongClosing, s),
   cautious |-> CountOcc(CautiousClosing, s),
   mixed    |-> CountOcc(MixedClosing, s)]

\* C6: for a non-empty corpus exactly one closing sentence is in the summary,
\* it is the last clause, and it is the strong recommendation when mean >= 4.0
\* and positive >= 70%, else the cautious one when mean >= 3.5 and positive >=
\* 60%, else the mixed-feedback one.
C6_OneClosingByPolicy ==
  \A r \in Requests :
    pc[r] \in {"respond", "done"} /\ reviews[r] # <<>>
      => LET v == C6_Variant(reviews[r])
         IN  /\ C6_Closings(summary[r]) =
                  [strong   |-> IF v = "strong" THEN 1 ELSE 0,
                   cautious |-> IF v = "cautious" THEN 1 ELSE 0,
                   mixed    |-> IF v = "mixed" THEN 1 ELSE 0]
             /\ v = "cautious" => EndsWith(summary[r], CautiousClosing)
             /\ v = "mixed" => EndsWith(summary[r], MixedClosing)
             \* the strong sentence ends by naming up to two aspects
             /\ v = "strong" =>
                  LET at   == Find(StrongClosing, summary[r], 1)
                      rest == SubSeq(summary[r], at + Len(StrongClosing), Len(summary[r]))
                  IN  /\ rest[Len(rest)] = "."
                      /\ \A i \in 1..(Len(rest) - 1) : rest[i] # "."

\* two of three reviews Positive (67%) with mean 4.0: the 4.0 / 70% rule fails
\* on the percentage, the 3.5 / 60% rule holds
C6_Witness ==
  \E r \in Requests :
    /\ pc[r] = "done"
    /\ Len(reviews[r]) = 3
    /\ Cardinality(WithSentiment(reviews[r], "Positive")) = 2
    /\ RatingSum(reviews[r]) = 120
    /\ EndsWith(response[r].body, CautiousClosing)

\* the thresholds on every polarity from -1.0 to 1.0, in thousandths
C7_EveryPolarity ==
  \A p \in (-1000)..1000 :
    /\ SentimentOf(p) = "Positive" <=> p > 100
    /\ SentimentOf(p) = "Negative" <=> p < -100
    /\ SentimentOf(p) = "Neutral" <=> (-100 <= p /\ p <= 100)

\* C7: analyze_sentiment gives Positive exactly for polarity > 0.1, Negative
\* exactly for polarity < -0.1 and Neutral otherwise (so 0.1, -0.1 and 0 are
\* Neutral), and the sentiment stored with a review is the class of the
\* polarity of its own text.  Polarity is in thousandths.
C7_SentimentThresholds ==
  /\ C7_EveryPolarity
  /\ \A r \in Requests : \A i \in 1..Len(reviews[r]) :
       LET p == Polarity(reviews[r][i].text)
           s == reviews[r][i].sentiment
       IN  /\ s \in {"Positive", "Negative", "Neutral"}
           /\ s = "Positive" <=> p > 100
           /\ s = "Negative" <=> p < -100

\* a corpus holding reviews of polarity exactly 0.1, exactly -0.1 and 0 (the
\* empty text), all stored as Neutral
C7_Witness ==
  \E r \in Requests :
    /\ \E i \in 1..Len(reviews[r]) :
         Polarity(reviews[r][i].text) = 100 /\ reviews[r][i].sentiment = "Neutral"
    /\ \E i \in 1..Len(reviews[r]) :
         Polarity(reviews[r][i].text) = -100 /\ reviews[r][i].sentiment = "Neutral"
    /\ \E i \in 1..Len(reviews[r]) :
         reviews[r][i].text = <<>> /\ reviews[r][i].sentiment = "Neutral"

\* the reviews of a corpus with a sentiment and a text longer than 200
\* characters, as indices in corpus order
LongWith(corpus, sentiment) ==
  {i \in 1..Len(corpus) : corpus[i].sentiment = sentiment /\ Len(corpus[i].text) > 200}

\* the longest text among the reviews at idxs, the first in corpus order among
\* equally long ones
C8_Longest(corpus, idxs) ==
  corpus[CHOOSE i \in idxs :
           \A j \in idxs : \/ Len(corpus[j].text) < Len(corpus[i].text)
                           \/ (Len(corpus[j].text) = Len(corpus[i].text) /\ i <= j)].text

\* C8: the neutral clause is in the summary exactly when some Neutral review
\* is longer than 200 characters; it then quotes the longest such review (the
\* first among equally long ones): exactly its first 150 characters, then
\* "...", and no more of the review.
C8_NeutralClause ==
  \A r \in Requests :
    pc[r] \in {"negative", "closing", "respond", "done"} /\ reviews[r] # <<>>
      => LET idxs == LongWith(reviews[r], "Neutral")
         IN  IF idxs = {} THEN ~Contains(NeutralLead, summary[r])
             ELSE LET text  == C8_Longest(reviews[r], idxs)
                      at    == Find(NeutralLead, summary[r], 1)
                      rest  == SubSeq(summary[r], at + Len(NeutralLead), Len(summary[r]))
                      quote == SubSeq(text, 1, 150) \o <<".", ".", ".", " ">>
                  IN  /\ CountOcc(NeutralLead, summary[r]) = 1
                      /\ Len(quote) = 154
                      /\ IsPrefix(quote, rest)
                      /\ pc[r] = "negative" => rest = quote

\* two Neutral reviews of the same length, both longer than 200 characters:
\* the summary quotes the first
C8_Witness ==
  \E r \in Requests :
    /\ pc[r] = "done"
    /\ \E i, j \in LongWith(reviews[r], "Neutral") :
         /\ i < j
         /\ Len(reviews[r][i].text) = Len(reviews[r][j].text)
         /\ reviews[r][i].text # reviews[r][j].text
         /\ Contains(NeutralLead \o SubSeq(reviews[r][i].text, 1, 150) \o <<".", ".", ".", " ">>,
                     response[r].body)

\* the longest of the comments, the first among equally long ones
C9_Example(comments) ==
  comments[CHOOSE i \in 1..Len(comments) :
             \A j \in 1..Len(comments) :
               \/ Len(comments[j]) < Len(comments[i])
               \/ (Len(comments[j]) = Len(comments[i]) /\ i <= j)]

RECURSIVE C9_ItemsFrom(_, _)
\* the items from the k-th on, each after its connector: none before the
\* first, ", and " before the last of several, ", " before the others
C9_ItemsFrom(themes, k) ==
  IF k > Len(themes) THEN <<>>
  ELSE (IF k = 1 THEN <<>> ELSE IF k = Len(themes) THEN <<",", " ", "a", "n", "d", " ">> ELSE <<",", " ">>)
       \o <<"t", "h", "e", " ">> \o themes[k].aspect \o <<" ", "(">> \o C9_Example(themes[k].comments) \o <<")">>
       \o C9_ItemsFrom(themes, k + 1)

\* what C9 asks of a summary in which the block of lead / themes was just
\* written (last) or written earlier
C9_Block(lead, themes, s, last) ==
  /\ \A k, l \in 1..Len(themes) : themes[k].aspect = themes[l].aspect => k = l
  /\ IF themes = <<>> THEN ~Contains(lead, s)
     ELSE /\ CountOcc(lead, s) = 1
          /\ LET block == lead \o C9_ItemsFrom(themes, 1) \o <<".", " ">>
             IN  IF last THEN EndsWith(s, block) ELSE Contains(block, s)

\* C9: the positive-themes clause (and the negative one alike) is written
\* exactly when the theme map has an aspect; it holds one item
\* "the {aspect} ({example})" per aspect, example the longest sentence of the
\* aspect (the first among equally long), joined by ", ", the last of several
\* by ", and ", a sole item with no connector.
C9_ThemeClauses ==
  \A r \in Requests :
    /\ pc[r] = "neutral" => C9_Block(PositiveLead, positive_themes[r], summary[r], TRUE)
    /\ pc[r] = "closing" => C9_Block(NegativeLead, negative_themes[r], summary[r], TRUE)
    /\ (pc[r] = "done" /\ reviews[r] # <<>>)
         => /\ C9_Block(PositiveLead, positive_themes[r], response[r].body, FALSE)
            /\ C9_Block(NegativeLead, negative_themes[r], response[r].body, FALSE)

\* three positive items, one of them with two sentences of which the second is
\* the longer, and at once two negative items
C9_Witness ==
  \E r \in Requests :
    /\ pc[r] = "done"
    /\ Len(positive_themes[r]) = 3
    /\ \E k \in 1..3 :
         /\ Len(positive_themes[r][k].comments) = 2
         /\ Len(positive_themes[r][k].comments[1]) < Len(positive_themes[r][k].comments[2])
    /\ Len(negative_themes[r]) = 2

RECURSIVE Ascending(_)
\* a set of numbers as a sequence in increasing order
Ascending(S) == IF S = {} THEN <<>> ELSE <<SetMin(S)>> \o Ascending(S \ {SetMin(S)})

\* the period-delimited segments of text that hold a keyword and are not blank
C10_Segments(keywords, text) ==
  {i \in 1..Len(Split(text, ".")) :
     /\ \E k \in 1..Len(keywords) : Contains(keywords[k], Split(text, ".")[i])
     /\ Strip(Split(text, ".")[i]) # <<>>}

\* what C10 asks of the theme map built from the reviews of one sentiment
C10_Map(themes, corpus, sentiment) ==
  \A a \in 1..Len(common_aspects) :
    LET kws   == common_aspects[a].keywords
        low   == [i \in 1..Len(corpus) |-> Lower(corpus[i].text)]
        feeds == Ascending({i \in LongWith(corpus, sentiment) :
                              \E k \in 1..Len(kws) : Contains(kws[k], low[i])})
        entry == {k \in 1..Len(themes) : themes[k].aspect = common_aspects[a].aspect}
    IN  IF feeds = <<>> THEN entry = {}
        ELSE /\ Cardinality(entry) = 1
             /\ \A n \in 1..Len(feeds) : C10_Segments(kws, low[feeds[n]]) # {}
             /\ themes[CHOOSE k \in entry : TRUE].comments =
                  [n \in 1..Len(feeds) |->
                     Strip(Split(low[feeds[n]], ".")[SetMin(C10_Segments(kws, low[feeds[n]]))])]

\* C10: extract_themes, on the reviews of one sentiment longer than 200
\* characters, appends per (review, aspect) exactly one sentence when the
\* lower-cased text holds a keyword of the aspect and nothing otherwise: the
\* first period-delimited segment holding a keyword of the aspect (trimmed);
\* so a list has one entry per matching review in corpus order, and an aspect
\* no review matches is absent.
C10_ExtractThemes ==
  \A r \in Requests :
    pc[r] = "positive"
      => /\ C10_Map(positive_themes[r], reviews[r], "Positive")
         /\ C10_Map(negative_themes[r], reviews[r], "Negative")

\* one review feeds two aspects with the same sentence, an aspect has entries
\* from two reviews, and a review with two matching segments gave its first
C10_Witness ==
  \E r \in Requests :
    /\ pc[r] = "positive"
    /\ Len(positive_themes[r]) = 3
    /\ positive_themes[r][1].aspect = <<"q", "u", "a", "l", "i", "t", "y">>
    /\ Len(positive_themes[r][1].comments) = 2
    /\ positive_themes[r][1].comments[1] = <<"g", "r", "e", "a", "t", " ", "q", "u", "a", "l", "i", "t", "y", " ", "a", "n", "d", " ", "a", " ", "f", "a", "i", "r", " ", "p", "r", "i", "c", "e">>
    /\ positive_themes[r][2].comments = <<<<"g", "r", "e", "a", "t", " ", "q", "u", "a", "l", "i", "t", "y", " ", "a", "n", "d", " ", "a", " ", "f", "a", "i", "r", " ", "p", "r", "i", "c", "e">>>>

====
